---- MODULE Spec2Model ----
(***************************************************************************)
(* Network interface statistics of pgcenter (internal/stat/netdev.go):     *)
(* acquisition of a snapshot from /proc/net/dev (readNetdevsLocal) or from *)
(* a Postgres instance (readNetdevsRemote), and the computation of rates   *)
(* and utilization from two snapshots (countNetdevsUsage).                 *)
(*                                                                         *)
(* Every operation is a function call without state kept between calls,   *)
(* so each action is one whole call: it draws the call's inputs, records   *)
(* them in the argument variables and records what the call returned.      *)
(***************************************************************************)
EXTENDS Integers, Sequences, FiniteSets, TLC

VARIABLES
    op,        \* the call made last: "none", "local", "remote", "noschema", "count"
    file,      \* readNetdevsLocal: the lines of the stat file, each a sequence of fields
    table,     \* readNetdevsRemote: the rows of pgcenter.sys_proc_netdev
    env,       \* what the environment of an acquisition does (failures, uptime, links)
    prev,      \* countNetdevsUsage: argument prev
    curr,      \* countNetdevsUsage: argument curr
    ticks,     \* countNetdevsUsage: argument ticks
    stat,      \* the Netdevs returned (the empty sequence when it is nil)
    statNil,   \* TRUE when the Netdevs returned is the nil slice
    err,       \* the error returned, "none" for a nil error
    lookups    \* the interface names handed to the link settings lookup, in order

vars == <<op, file, table, env, prev, curr, ticks, stat, statNil, err, lookups>>

(***************************************************************************)
(* Bounds of the model.                                                    *)
(***************************************************************************)
MaxLines == 2     \* interface lines of a stat file, after its two header lines
MaxDevs == 2      \* interfaces of a snapshot given to countNetdevsUsage
MaxUptime == 3    \* uptime values are 1..MaxUptime

(***************************************************************************)
(* float64 values are modelled as exact fractions <<n, d>> in lowest terms *)
(* with d > 0. No model input divides by zero: the code guards the packet  *)
(* rates and the link speed, and the uptime of the later snapshot is       *)
(* larger than that of the earlier one.                                    *)
(***************************************************************************)
Abs(x) == IF x < 0 THEN -x ELSE x

RECURSIVE Gcd(_, _)
Gcd(a, b) == IF b = 0 THEN a ELSE Gcd(b, a % b)

Frac(n, d) ==
    LET s == IF d < 0 THEN -1 ELSE 1
        g == Gcd(Abs(n), Abs(d))
    IN  <<(s * n) \div g, (s * d) \div g>>

F(n) == <<n, 1>>
Zero == F(0)

FAdd(x, y) == Frac(x[1] * y[2] + y[1] * x[2], x[2] * y[2])
FSub(x, y) == Frac(x[1] * y[2] - y[1] * x[2], x[2] * y[2])
FMul(x, y) == Frac(x[1] * y[1], x[2] * y[2])
FDiv(x, y) == Frac(x[1] * y[2], x[2] * y[1])
FLess(x, y) == x[1] * y[2] < y[1] * x[2]
FLeq(x, y) == x[1] * y[2] <= y[1] * x[2]
FMin(x, y) == IF FLess(y, x) THEN y ELSE x    \* math.Min
FMax(x, y) == IF FLess(x, y) THEN y ELSE x    \* math.Max

(***************************************************************************)
(* Strings are sequences of characters, so that the regular expression of  *)
(* the filter and left(iface,-1) of the query are computed on the text.    *)
(***************************************************************************)
Str_eth0 == <<"e", "t", "h", "0">>
Str_eth1 == <<"e", "t", "h", "1">>
Str_lo == <<"l", "o">>
Str_docker0 == <<"d", "o", "c", "k", "e", "r", "0">>
Str_veth1 == <<"v", "e", "t", "h", "1">>
Str_virbr0 == <<"v", "i", "r", "b", "r", "0">>
Str_brveth == <<"b", "r", "-", "v", "e", "t", "h">>
Colon == <<":">>

Digit == [i \in 0..9 |-> <<"0", "1", "2", "3", "4", "5", "6", "7", "8", "9">>[i + 1]]
DigitChars == {Digit[i] : i \in 0..9}
DigitVal(c) == CHOOSE i \in 0..9 : Digit[i] = c

\* the decimal text of a natural number, as the kernel prints a counter
RECURSIVE Decimal(_)
Decimal(n) == IF n < 10 THEN <<Digit[n]>> ELSE Decimal(n \div 10) \o <<Digit[n % 10]>>

IsNumber(s) == Len(s) > 0 /\ \A i \in 1..Len(s) : s[i] \in DigitChars

RECURSIVE ParseNumber(_)
ParseNumber(s) ==
    IF Len(s) = 0 THEN 0
    ELSE 10 * ParseNumber(SubSeq(s, 1, Len(s) - 1)) + DigitVal(s[Len(s)])

Contains(s, p) == \E i \in 1..(Len(s) - Len(p) + 1) : SubSeq(s, i, i + Len(p) - 1) = p

(***************************************************************************)
(* type Netdev. Speed and Duplex are integers, Ifname is a string and      *)
(* every other field is a float64.                                         *)
(***************************************************************************)
ZeroNetdev ==
    [Ifname |-> <<>>, Speed |-> 0, Duplex |-> 0,
     Rbytes |-> Zero, Rpackets |-> Zero, Rerrs |-> Zero, Rdrop |-> Zero,
     Rfifo |-> Zero, Rframe |-> Zero, Rcompressed |-> Zero, Rmulticast |-> Zero,
     Tbytes |-> Zero, Tpackets |-> Zero, Terrs |-> Zero, Tdrop |-> Zero,
     Tfifo |-> Zero, Tcolls |-> Zero, Tcarrier |-> Zero, Tcompressed |-> Zero,
     Packets |-> Zero, Raverage |-> Zero, Taverage |-> Zero, Saturation |-> Zero,
     Rutil |-> Zero, Tutil |-> Zero, Utilization |-> Zero, Uptime |-> Zero]

\* the sixteen counters of a line or row, in the order they are scanned
CounterFields ==
    <<"Rbytes", "Rpackets", "Rerrs", "Rdrop", "Rfifo", "Rframe", "Rcompressed",
      "Rmulticast", "Tbytes", "Tpackets", "Terrs", "Tdrop", "Tfifo", "Tcolls",
      "Tcarrier", "Tcompressed">>

NCounters == Len(CounterFields)

CounterIndex(f) == CHOOSE k \in 1..NCounters : CounterFields[k] = f

\* Netdev{} with Ifname and the sixteen counters set from scanned values
ScannedNetdev(name, cs) ==
    [f \in DOMAIN ZeroNetdev |->
        IF f = "Ifname" THEN name
        ELSE IF \E k \in 1..NCounters : CounterFields[k] = f THEN F(cs[CounterIndex(f)])
        ELSE ZeroNetdev[f]]

(***************************************************************************)
(* Duplex codes and sValue are defined in other files of the package.      *)
(***************************************************************************)
duplexHalf == 0
duplexFull == 1
duplexUnknown == 255

sValue(p, c, itv, t) == FMul(FDiv(FSub(c, p), itv), t)

(***************************************************************************)
(* countNetdevsUsage                                                       *)
(***************************************************************************)
\* the rate of transmit errors is computed from the receive errors
UsageRatesCopied(p, c, t) ==
    LET itv == FSub(c.Uptime, p.Uptime)
    IN  [ZeroNetdev EXCEPT
            !.Ifname = c.Ifname,
            !.Rbytes = sValue(p.Rbytes, c.Rbytes, itv, t),
            !.Tbytes = sValue(p.Tbytes, c.Tbytes, itv, t),
            !.Rpackets = sValue(p.Rpackets, c.Rpackets, itv, t),
            !.Tpackets = sValue(p.Tpackets, c.Tpackets, itv, t),
            !.Rerrs = sValue(p.Rerrs, c.Rerrs, itv, t),
            !.Terrs = sValue(p.Rerrs, c.Rerrs, itv, t),
            !.Tcolls = sValue(p.Tcolls, c.Tcolls, itv, t),
            !.Saturation = sValue(p.Saturation, c.Saturation, itv, t),
            !.Speed = c.Speed,
            !.Duplex = c.Duplex,
            !.Packets = FAdd(c.Rpackets, c.Tpackets)]

\* lines 174-186 and 199: interval, name, rates, link settings, packets
UsageRates(p, c, t) ==
    LET itv == FSub(c.Uptime, p.Uptime)
    IN  [ZeroNetdev EXCEPT
            !.Ifname = c.Ifname,
            !.Rbytes = sValue(p.Rbytes, c.Rbytes, itv, t),
            !.Tbytes = sValue(p.Tbytes, c.Tbytes, itv, t),
            !.Rpackets = sValue(p.Rpackets, c.Rpackets, itv, t),
            !.Tpackets = sValue(p.Tpackets, c.Tpackets, itv, t),
            !.Rerrs = sValue(p.Rerrs, c.Rerrs, itv, t),
            !.Terrs = sValue(p.Terrs, c.Terrs, itv, t),
            !.Tcolls = sValue(p.Tcolls, c.Tcolls, itv, t),
            !.Saturation = sValue(p.Saturation, c.Saturation, itv, t),
            !.Speed = c.Speed,
            !.Duplex = c.Duplex,
            !.Packets = FAdd(c.Rpackets, c.Tpackets)]

\* lines 188-197: average packet sizes
UsageAverages(s) ==
    [s EXCEPT
        !.Raverage = IF FLess(Zero, s.Rpackets) THEN FDiv(s.Rbytes, s.Rpackets) ELSE Zero,
        !.Taverage = IF FLess(Zero, s.Tpackets) THEN FDiv(s.Tbytes, s.Tpackets) ELSE Zero]

\* the utilization of one duplex mode for a link speed
DuplexUtilization(s, speed, duplex) ==
    LET rutil == FMin(FDiv(FMul(s.Rbytes, F(800)), F(speed)), F(100))
        tutil == FMin(FDiv(FMul(s.Tbytes, F(800)), F(speed)), F(100))
    IN  [s EXCEPT
            !.Rutil = rutil,
            !.Tutil = tutil,
            !.Utilization =
                CASE duplex = "max" -> FMax(rutil, tutil)
                  [] duplex = "min" -> FMin(rutil, tutil)
                  [] duplex = "sum" ->
                        FMin(FDiv(FMul(FAdd(s.Rbytes, s.Tbytes), F(800)), F(speed)), F(100))
                  [] duplex = "uncapped" ->
                        FDiv(FMul(FAdd(s.Rbytes, s.Tbytes), F(800)), F(speed))
                  [] OTHER -> s.Utilization]

\* the link speed is taken from prev and not from curr
UsageUtilizationPrevSpeed(s, p, c) ==
    IF p.Speed > 0
    THEN DuplexUtilization(s, p.Speed,
            CASE c.Duplex = duplexFull -> "max" [] c.Duplex = duplexHalf -> "sum"
              [] OTHER -> "none")
    ELSE [s EXCEPT !.Rutil = Zero, !.Tutil = Zero, !.Utilization = Zero]

\* full duplex takes the smaller of Rutil and Tutil
UsageUtilizationFullMin(s, p, c) ==
    IF c.Speed > 0
    THEN DuplexUtilization(s, c.Speed,
            CASE c.Duplex = duplexFull -> "min" [] c.Duplex = duplexHalf -> "sum"
              [] OTHER -> "none")
    ELSE [s EXCEPT !.Rutil = Zero, !.Tutil = Zero, !.Utilization = Zero]

\* half duplex is not capped at 100
UsageUtilizationHalfUncapped(s, p, c) ==
    IF c.Speed > 0
    THEN DuplexUtilization(s, c.Speed,
            CASE c.Duplex = duplexFull -> "max" [] c.Duplex = duplexHalf -> "uncapped"
              [] OTHER -> "none")
    ELSE [s EXCEPT !.Rutil = Zero, !.Tutil = Zero, !.Utilization = Zero]

\* lines 201-216: utilization of the link
UsageUtilization(s, p, c) ==
    IF c.Speed > 0
    THEN LET rutil == FMin(FDiv(FMul(s.Rbytes, F(800)), F(c.Speed)), F(100))
             tutil == FMin(FDiv(FMul(s.Tbytes, F(800)), F(c.Speed)), F(100))
         IN  [s EXCEPT
                !.Rutil = rutil,
                !.Tutil = tutil,
                !.Utilization =
                    CASE c.Duplex = duplexFull -> FMax(rutil, tutil)
                      [] c.Duplex = duplexHalf ->
                            FMin(FDiv(FMul(FAdd(s.Rbytes, s.Tbytes), F(800)), F(c.Speed)),
                                 F(100))
                      [] OTHER -> s.Utilization]
    ELSE [s EXCEPT !.Rutil = Zero, !.Tutil = Zero, !.Utilization = Zero]

\* lines 169-172: the test that skips an interface
Inactive(c) == FAdd(c.Rpackets, c.Tpackets) = Zero

\* the skip tests the entry of prev and not that of curr
UsageEntrySkipOnPrev(p, c, t) ==
    IF Inactive(p) THEN ZeroNetdev
    ELSE UsageUtilization(UsageAverages(UsageRates(p, c, t)), p, c)

\* lines 168-217: one pass of the loop, the value of stat[i] after it
UsageEntry(p, c, t) ==
    IF Inactive(c) THEN ZeroNetdev
    ELSE UsageUtilization(UsageAverages(UsageRates(p, c, t)), p, c)

\* the value returned: [nil, devs]
countNetdevsUsage(p, c, t) ==
    IF Len(c) # Len(p)
    THEN [nil |-> TRUE, devs |-> <<>>]
    ELSE [nil |-> FALSE, devs |-> [i \in 1..Len(c) |-> UsageEntry(p[i], c[i], t)]]

(***************************************************************************)
(* The filter of both acquisitions: regexp `docker|virbr|veth`, unanchored *)
(***************************************************************************)
Patterns ==
    {<<"d", "o", "c", "k", "e", "r">>, <<"v", "i", "r", "b", "r">>, <<"v", "e", "t", "h">>}

\* the expression is anchored at the start of the name
MatchStringAnchored(name) ==
    \E pat \in Patterns : Len(name) >= Len(pat) /\ SubSeq(name, 1, Len(pat)) = pat

MatchString(name) == \E pat \in Patterns : Contains(name, pat)

(***************************************************************************)
(* The link settings of the host: a table from the names of its interfaces *)
(* to <<speed, duplex>>. GetLinkSettings is defined in another file of the *)
(* package; a lookup of a name the host does not have fails, and a failed  *)
(* lookup yields speed 0 and duplex unknown.                               *)
(***************************************************************************)
GetLinkSettings(links, name) ==
    IF name \in DOMAIN links
    THEN [speed |-> links[name][1], duplex |-> links[name][2], ok |-> TRUE]
    ELSE [speed |-> 0, duplex |-> duplexUnknown, ok |-> FALSE]

(***************************************************************************)
(* readNetdevsLocal. A line of the file is the sequence of its fields, the *)
(* pieces between white space.                                             *)
(***************************************************************************)
\* fmt.Sscanln into a string and sixteen float64: the line must hold exactly
\* seventeen fields and the last sixteen must be numbers
Sscanln(line) ==
    IF Len(line) = 1 + NCounters /\ \A k \in 2..Len(line) : IsNumber(line[k])
    THEN [ok |-> TRUE,
          n |-> ScannedNetdev(line[1], [k \in 1..NCounters |-> ParseNumber(line[k + 1])])]
    ELSE [ok |-> FALSE, n |-> ZeroNetdev]

\* lines 106-111: the fields set on a line that passed the filter
LocalNetdev(n, uptime, links) ==
    LET link == GetLinkSettings(links, n.Ifname)
    IN  [n EXCEPT
            !.Saturation =
                FAdd(FAdd(FAdd(FAdd(FAdd(n.Rerrs, n.Rdrop), n.Tdrop), n.Tfifo), n.Tcolls),
                     n.Tcarrier),
            !.Uptime = uptime,
            !.Speed = link.speed,
            !.Duplex = link.duplex]

\* the filter is applied to the first field before the line is scanned
LocalLineFilterFirst(line) ==
    IF Len(line) > 0 /\ MatchString(line[1]) THEN "skip"
    ELSE IF ~Sscanln(line).ok THEN "bad"
    ELSE "keep"

\* lines 88-104: what becomes of one line: "bad" when it does not scan (line
\* 96), else "skip" when its name matches the filter (line 102), else "keep"
LocalLine(line) ==
    LET sc == Sscanln(line)
    IN  IF ~sc.ok THEN "bad"
        ELSE IF MatchString(sc.n.Ifname) THEN "skip"
        ELSE "keep"

\* lines 87-116: the loop over the lines that follow the header, from line k on,
\* with the stat appended so far and the names looked up so far
RECURSIVE LocalLoop(_, _, _, _, _, _)
LocalLoop(lines, k, uptime, links, st, looked) ==
    IF k > Len(lines)
    THEN [nil |-> st = <<>>, devs |-> st, err |-> "none", lookups |-> looked]
    ELSE LET n == Sscanln(lines[k]).n
             what == LocalLine(lines[k])
         IN  IF what = "bad"
             THEN [nil |-> TRUE, devs |-> <<>>, err |-> "bad content", lookups |-> looked]
             ELSE IF what = "skip"
             THEN LocalLoop(lines, k + 1, uptime, links, st, looked)
             ELSE LocalLoop(lines, k + 1, uptime, links,
                            Append(st, LocalNetdev(n, uptime, links)),
                            Append(looked, n.Ifname))

\* lines 70-117
readNetdevsLocal(f, e) ==
    IF e.openErr
    THEN [nil |-> TRUE, devs |-> <<>>, err |-> "open", lookups |-> <<>>]
    ELSE IF e.uptimeErr
    THEN [nil |-> TRUE, devs |-> <<>>, err |-> "uptime", lookups |-> <<>>]
    ELSE LocalLoop(SubSeq(f, 3, Len(f)), 1, F(e.uptime), e.links, <<>>, <<>>)

(***************************************************************************)
(* readNetdevsRemote. A row of pgcenter.sys_proc_netdev holds the iface    *)
(* column, the sixteen counters, and whether one of them is NULL (such a   *)
(* row does not scan into float64).                                        *)
(***************************************************************************)
Alphabet ==
    <<"-", "0", "1", "2", "3", "4", "5", "6", "7", "8", "9", ":",
      "a", "b", "c", "d", "e", "f", "g", "h", "i", "j", "k", "l", "m",
      "n", "o", "p", "q", "r", "s", "t", "u", "v", "w", "x", "y", "z">>

CharCode(c) == CHOOSE k \in 1..Len(Alphabet) : Alphabet[k] = c

RECURSIVE StrLess(_, _)
StrLess(a, b) ==
    IF Len(b) = 0 THEN FALSE
    ELSE IF Len(a) = 0 THEN TRUE
    ELSE IF a[1] # b[1] THEN CharCode(a[1]) < CharCode(b[1])
    ELSE StrLess(Tail(a), Tail(b))

\* SQL left(s, -1): all but the last character
Left1(s) == IF Len(s) = 0 THEN s ELSE SubSeq(s, 1, Len(s) - 1)

\* ORDER BY iface
RECURSIVE OrderByIface(_)
OrderByIface(rows) ==
    IF rows = {} THEN <<>>
    ELSE LET first == CHOOSE r \in rows : \A q \in rows \ {r} : StrLess(r.iface, q.iface)
         IN  <<first>> \o OrderByIface(rows \ {first})

\* line 57: SELECT left(iface,-1),* FROM pgcenter.sys_proc_netdev ORDER BY iface
pgProcNetdevQuery(tbl) ==
    LET ordered == OrderByIface(tbl)
    IN  [k \in 1..Len(ordered) |->
            [name |-> Left1(ordered[k].iface), iface |-> ordered[k].iface,
             cs |-> ordered[k].cs, null |-> ordered[k].null]]

\* lines 133-138: rows.Scan
RowsScan(row) ==
    IF row.null THEN [ok |-> FALSE, n |-> ZeroNetdev]
    ELSE [ok |-> TRUE, n |-> ScannedNetdev(row.name, row.cs)]

\* lines 55 and 149: the link settings of one interface, read by the server;
\* the query fails for the names in e.linkErr and for a name the host lacks
pgProcLinkSettingsQuery(e, name) ==
    IF name \in e.linkErr \/ name \notin DOMAIN e.links
    THEN [speed |-> 0, duplex |-> 0, ok |-> FALSE]
    ELSE [speed |-> e.links[name][1], duplex |-> e.links[name][2], ok |-> TRUE]

\* lines 131-157: the loop over the rows, from row k on
RECURSIVE RemoteLoop(_, _, _, _, _, _)
RemoteLoop(rows, k, uptime, e, st, looked) ==
    IF k > Len(rows)
    THEN [nil |-> st = <<>>, devs |-> st, err |-> "none", lookups |-> looked]
    ELSE LET sc == RowsScan(rows[k])
         IN  IF ~sc.ok
             THEN [nil |-> TRUE, devs |-> <<>>, err |-> "scan", lookups |-> looked]
             ELSE IF MatchString(sc.n.Ifname)
             THEN RemoteLoop(rows, k + 1, uptime, e, st, looked)
             ELSE LET link == pgProcLinkSettingsQuery(e, sc.n.Ifname)
                  IN  IF ~link.ok
                      THEN [nil |-> TRUE, devs |-> <<>>, err |-> "link",
                            lookups |-> Append(looked, sc.n.Ifname)]
                      ELSE RemoteLoop(rows, k + 1, uptime, e,
                                Append(st, [sc.n EXCEPT !.Uptime = uptime,
                                                        !.Speed = link.speed,
                                                        !.Duplex = link.duplex]),
                                Append(looked, sc.n.Ifname))

\* lines 119-158. The error of the uptime query is dropped at line 122 and
\* uptime keeps its zero value.
readNetdevsRemote(tbl, e) ==
    LET uptime == IF e.uptimeErr THEN Zero ELSE F(e.uptime)
    IN  IF e.queryErr
        THEN [nil |-> TRUE, devs |-> <<>>, err |-> "query", lookups |-> <<>>]
        ELSE RemoteLoop(pgProcNetdevQuery(tbl), 1, uptime, e, <<>>, <<>>)

(***************************************************************************)
(* The inputs the calls are given.                                         *)
(***************************************************************************)
Names == {Str_eth0, Str_eth1, Str_lo, Str_docker0, Str_veth1, Str_virbr0, Str_brveth}

\* sixteen counters, in the order of CounterFields
CountersIdle == [k \in 1..NCounters |-> 0]
CountersLow == <<1000, 10, 1, 0, 0, 0, 0, 0, 100, 5, 0, 1, 0, 0, 0, 0>>
CountersHigh == <<2000, 20, 2, 1, 0, 0, 0, 3, 1500, 10, 1, 1, 1, 2, 1, 0>>
CountersRxOnly == <<3000, 30, 2, 1, 0, 0, 0, 3, 1500, 0, 1, 2, 1, 2, 1, 0>>

Uptimes == 1..MaxUptime

LinkTable1 ==
    [n \in Names |->
        CASE n = Str_eth0 -> <<1000000, duplexFull>>
          [] n = Str_eth1 -> <<8000, duplexHalf>>
          [] OTHER -> <<0, duplexUnknown>>]

LinkTables ==
    {LinkTable1,
     [n \in Names |->
        CASE n = Str_eth0 -> <<8000, duplexFull>>
          [] n = Str_eth1 -> <<1000000, duplexUnknown>>
          [] n = Str_lo -> <<0, duplexFull>>
          [] OTHER -> <<8000, 2>>]}

NoEnv ==
    [dbLocal |-> FALSE, schemaExists |-> FALSE, openErr |-> FALSE, uptimeErr |-> FALSE,
     uptime |-> 0, links |-> <<>>, queryErr |-> FALSE, linkErr |-> {}]

\* a line of /proc/net/dev: "name:" and sixteen counters
Line(name, cs) == <<name \o Colon>> \o [k \in 1..NCounters |-> Decimal(cs[k])]

Header1 == <<<<"I", "n", "t", "e", "r", "-", "|">>, <<"R", "e", "c", "e", "i", "v", "e">>>>
Header2 == <<<<"f", "a", "c", "e">>, <<"|", "b", "y", "t", "e", "s">>>>

GoodLines ==
    {Line(Str_eth0, CountersLow), Line(Str_eth1, CountersHigh), Line(Str_lo, CountersIdle),
     Line(Str_docker0, CountersLow), Line(Str_veth1, CountersHigh),
     Line(Str_brveth, CountersLow)}

BadLines ==
    {<<>>,                                                       \* an empty line
     SubSeq(Line(Str_eth1, CountersLow), 1, NCounters),          \* a counter is missing
     Line(Str_docker0, CountersLow) \o <<Decimal(0)>>,           \* a field too many
     [Line(Str_virbr0, CountersHigh) EXCEPT ![4] = <<"x">>],     \* not a number
     <<Str_eth0 \o Colon \o Decimal(1000)>>
        \o SubSeq(Line(Str_eth0, CountersLow), 3, 1 + NCounters)} \* "eth0:1000 10 ..."

BodyLines == GoodLines \cup BadLines

RECURSIVE SeqsUpTo(_, _)
SeqsUpTo(S, n) ==
    IF n = 0 THEN {<<>>}
    ELSE LET shorter == SeqsUpTo(S, n - 1)
         IN  shorter \cup {Append(q, x) : q \in {r \in shorter : Len(r) = n - 1}, x \in S}

Files ==
    {<<>>, <<Header1>>}
    \cup {h \o b : h \in {<<Header1, Header2>>,
                         <<Line(Str_eth0, CountersHigh), <<>>>>},
                  b \in SeqsUpTo(BodyLines, MaxLines)}

\* the calls that succeed in opening the file and reading the uptime, and one
\* call for each of the two that fail
LocalEnvs ==
    {[NoEnv EXCEPT !.dbLocal = TRUE, !.uptime = u, !.links = l] :
        u \in Uptimes, l \in LinkTables}
    \cup {[NoEnv EXCEPT !.dbLocal = TRUE, !.uptime = 1, !.links = LinkTable1,
                        !.openErr = fail[1], !.uptimeErr = fail[2]] :
            fail \in {<<TRUE, FALSE>>, <<FALSE, TRUE>>}}

Row(name, cs, null) == [iface |-> name \o Colon, cs |-> cs, null |-> null]

TableRows ==
    {Row(Str_eth0, CountersLow, FALSE), Row(Str_eth1, CountersHigh, FALSE),
     Row(Str_eth1, CountersHigh, TRUE), Row(Str_lo, CountersIdle, FALSE),
     Row(Str_docker0, CountersLow, FALSE), Row(Str_docker0, CountersLow, TRUE),
     Row(Str_brveth, CountersLow, FALSE)}

\* iface is unique in the table
Tables == {t \in SUBSET TableRows : \A r, q \in t : r.iface = q.iface => r = q}

\* the calls whose counters query succeeds, with or without the uptime, and
\* those whose counters query fails
RemoteEnvs ==
    {[NoEnv EXCEPT !.schemaExists = TRUE, !.uptimeErr = ue, !.linkErr = le,
                   !.uptime = u, !.links = l] :
        ue \in BOOLEAN, le \in {{}, {Str_eth0}, {Str_lo}, {Str_docker0}},
        u \in Uptimes, l \in LinkTables}
    \cup {[NoEnv EXCEPT !.schemaExists = TRUE, !.queryErr = TRUE, !.uptimeErr = ue,
                        !.uptime = 1, !.links = LinkTable1] : ue \in BOOLEAN}

\* an entry of a snapshot: the counters of an interface and its link settings,
\* with Saturation set as readNetdevsLocal sets it (sat) or left zero as
\* readNetdevsRemote leaves it
Entry(name, speed, duplex, cs, sat) ==
    LET n == ScannedNetdev(name, cs)
    IN  [n EXCEPT
            !.Speed = speed,
            !.Duplex = duplex,
            !.Saturation =
                IF sat
                THEN FAdd(FAdd(FAdd(FAdd(FAdd(n.Rerrs, n.Rdrop), n.Tdrop), n.Tfifo),
                               n.Tcolls), n.Tcarrier)
                ELSE Zero]

SaturatedEntries ==
    {Entry(Str_eth0, 8000, duplexFull, CountersLow, TRUE),
     Entry(Str_eth0, 1000000, duplexFull, CountersHigh, TRUE),
     Entry(Str_eth1, 8000, duplexHalf, CountersHigh, TRUE),
     Entry(Str_eth1, 0, duplexHalf, CountersRxOnly, TRUE),
     Entry(Str_lo, 0, duplexUnknown, CountersIdle, TRUE),
     Entry(Str_lo, 0, 2, CountersRxOnly, TRUE)}

PlainEntries ==
    {Entry(Str_eth0, 1000000, duplexUnknown, CountersLow, FALSE),
     Entry(Str_eth1, 0, duplexFull, CountersHigh, FALSE),
     Entry(Str_lo, 0, duplexUnknown, CountersRxOnly, FALSE)}

\* the snapshots over a set of entries, without the uptime: the names of a
\* snapshot are unique
EntrySeqs(entries) ==
    {r \in SeqsUpTo(entries, MaxDevs) :
        \A i, j \in 1..Len(r) : r[i].Ifname = r[j].Ifname => i = j}

SaturatedSeqs == EntrySeqs(SaturatedEntries)
PlainSeqs == EntrySeqs(PlainEntries)

\* every entry of a snapshot carries the uptime of its acquisition
Stamp(q, uptime) == [i \in 1..Len(q) |-> [q[i] EXCEPT !.Uptime = F(uptime)]]

Ticks == {1, 100}

(***************************************************************************)
(* The calls. Each is made from the state in which no call has been made   *)
(* yet: no call reads what an earlier call left behind.                    *)
(***************************************************************************)
Init ==
    /\ op = "none"
    /\ file = <<>>
    /\ table = {}
    /\ env = NoEnv
    /\ prev = <<>>
    /\ curr = <<>>
    /\ ticks = 0
    /\ stat = <<>>
    /\ statNil = TRUE
    /\ err = "none"
    /\ lookups = <<>>

Returned(r) ==
    /\ stat' = r.devs
    /\ statNil' = r.nil
    /\ err' = r.err
    /\ lookups' = r.lookups

\* readNetdevs, line 61-62: the database is local
ReadNetdevsLocal ==
    /\ op = "none"
    /\ \E f \in Files, e \in LocalEnvs :
        /\ op' = "local"
        /\ file' = f
        /\ env' = e
        /\ table' = {}
        /\ prev' = <<>> /\ curr' = <<>> /\ ticks' = 0
        /\ Returned(readNetdevsLocal(f, e))

\* readNetdevs, line 63-64: the database is remote and the schema exists
ReadNetdevsRemote ==
    /\ op = "none"
    /\ \E t \in Tables, e \in RemoteEnvs :
        /\ op' = "remote"
        /\ table' = t
        /\ env' = e
        /\ file' = <<>>
        /\ prev' = <<>> /\ curr' = <<>> /\ ticks' = 0
        /\ Returned(readNetdevsRemote(t, e))

\* readNetdevs, line 67: the database is remote and the schema does not exist
ReadNetdevsNoSchema ==
    /\ op = "none"
    /\ op' = "noschema"
    /\ env' = NoEnv
    /\ file' = <<>> /\ table' = {}
    /\ prev' = <<>> /\ curr' = <<>> /\ ticks' = 0
    /\ Returned([nil |-> FALSE, devs |-> <<>>, err |-> "none", lookups |-> <<>>])

\* countNetdevsUsage on two snapshots of the same acquisition (both with
\* Saturation set or both without), the later one taken at a larger uptime
CountNetdevsUsage ==
    /\ op = "none"
    /\ \E up \in Uptimes, uc \in Uptimes, t \in Ticks, seqs \in {SaturatedSeqs, PlainSeqs} :
        /\ up < uc
        /\ \E p \in seqs, c \in seqs :
            /\ op' = "count"
            /\ prev' = Stamp(p, up)
            /\ curr' = Stamp(c, uc)
            /\ ticks' = t
            /\ file' = <<>> /\ table' = {} /\ env' = NoEnv
            /\ LET r == countNetdevsUsage(Stamp(p, up), Stamp(c, uc), F(t))
               IN  Returned([nil |-> r.nil, devs |-> r.devs, err |-> "none",
                             lookups |-> <<>>])

Next ==
    \/ ReadNetdevsLocal
    \/ ReadNetdevsRemote
    \/ ReadNetdevsNoSchema
    \/ CountNetdevsUsage

Spec == Init /\ [][Next]_vars

(***************************************************************************)
(* Properties of countNetdevsUsage.                                        *)
(***************************************************************************)
Counted == op = "count"
Positions == 1..Len(curr)
SameLength == Len(prev) = Len(curr)
NoPackets(n) == n.Rpackets = Zero /\ n.Tpackets = Zero

\* C1: when prev and curr differ in length, countNetdevsUsage reports an
\* explicit SnapshotShapeMismatch error and not a nil or empty result.
C1_MismatchIsAnError ==
    (Counted /\ ~SameLength) => (err = "SnapshotShapeMismatch" /\ ~statNil)

\* C2, as claimed: the entry at position i of an interface without received
\* and transmitted packets in curr carries the name of curr[i], every other
\* field of it is zero, and the output is as long as the input.
C2_InactiveKeepsName ==
    (Counted /\ SameLength) =>
        /\ Len(stat) = Len(curr)
        /\ \A i \in Positions :
            NoPackets(curr[i]) =>
                /\ stat[i].Ifname = curr[i].Ifname
                /\ \A f \in DOMAIN stat[i] \ {"Ifname", "Speed", "Duplex"} : stat[i][f] = Zero

\* C2, amended: the entry at position i of an interface without received and
\* transmitted packets in curr has every field zero, its name included (the
\* empty string), whatever prev[i] holds, and the output is as long as the
\* input.
C2_InactiveIsAllZero ==
    (Counted /\ SameLength) =>
        /\ ~statNil
        /\ Len(stat) = Len(curr)
        /\ \A i \in Positions :
            NoPackets(curr[i]) =>
                /\ stat[i].Ifname = <<>>
                /\ stat[i].Speed = 0
                /\ stat[i].Duplex = 0
                /\ \A f \in DOMAIN stat[i] \ {"Ifname", "Speed", "Duplex"} : stat[i][f] = Zero

\* an inactive interface after an active one, whose prev entry has packets
C2_Witness ==
    /\ Counted /\ SameLength /\ Len(curr) = 2
    /\ ~NoPackets(curr[1]) /\ stat[1].Ifname = curr[1].Ifname
    /\ NoPackets(curr[2]) /\ ~NoPackets(prev[2]) /\ curr[2].Ifname # <<>>

RateFields ==
    {"Rbytes", "Tbytes", "Rpackets", "Tpackets", "Rerrs", "Terrs", "Tcolls", "Saturation"}

\* no counter of c is below the same counter of p
NonDecreasing(p, c) ==
    \A k \in 1..NCounters : FLeq(p[CounterFields[k]], c[CounterFields[k]])

\* the uptimes and the counters of a snapshot are whole numbers
Interval(i) == curr[i].Uptime[1] - prev[i].Uptime[1]

\* C3: for an entry that is not skipped, with a positive interval and no
\* counter decreasing, every rate is non-negative and is the difference of
\* the counter divided by the interval and multiplied by ticks.
C3_Rates ==
    (Counted /\ SameLength) =>
        \A i \in Positions :
            (~NoPackets(curr[i]) /\ Interval(i) > 0 /\ NonDecreasing(prev[i], curr[i])) =>
                \A f \in RateFields :
                    /\ FLeq(Zero, stat[i][f])
                    /\ stat[i][f] = Frac((curr[i][f][1] - prev[i][f][1]) * ticks, Interval(i))

\* two entries with rising counters, an interval of 2 and 100 ticks: the byte
\* rates differ, the error rates differ and the saturation rate is positive
C3_Witness ==
    /\ Counted /\ SameLength /\ Len(curr) = 2 /\ ticks = 100
    /\ \A i \in Positions :
        /\ ~NoPackets(curr[i]) /\ Interval(i) = 2 /\ NonDecreasing(prev[i], curr[i])
    /\ stat[2].Rbytes # stat[2].Tbytes
    /\ stat[2].Rerrs # stat[2].Terrs
    /\ FLess(Zero, stat[2].Saturation)
    /\ stat[2].Rbytes[2] = 1 /\ stat[1].Rpackets # stat[2].Rpackets

\* C4: an entry whose link speed in curr is 0 has Rutil, Tutil and Utilization
\* 0, whatever its duplex and its byte rates.
C4_NoSpeedNoUtilization ==
    (Counted /\ SameLength) =>
        \A i \in Positions :
            curr[i].Speed = 0 =>
                stat[i].Rutil = Zero /\ stat[i].Tutil = Zero /\ stat[i].Utilization = Zero

\* an active interface without link speed in curr, which had one in prev, with
\* positive byte rates, next to one of another duplex
C4_Witness ==
    /\ Counted /\ SameLength /\ Len(curr) = 2
    /\ curr[1].Speed = 0 /\ prev[1].Speed > 0 /\ curr[1].Duplex = duplexHalf
    /\ FLess(Zero, stat[1].Rbytes) /\ FLess(Zero, stat[1].Tbytes)
    /\ curr[2].Speed = 0 /\ curr[2].Duplex \notin {duplexHalf, duplexFull, duplexUnknown}
    /\ FLess(Zero, stat[2].Rbytes)

\* a byte rate as a percentage of the link speed, capped at 100
Percent(rate, speed) ==
    LET pct == Frac(rate[1] * 8 * 100, rate[2] * speed)
    IN  IF FLess(F(100), pct) THEN F(100) ELSE pct

\* C5: for an active full duplex entry with a link speed, Rutil and Tutil are
\* the capped percentages of the byte rates and Utilization is the larger of
\* the two, so it is below neither.
C5_FullDuplex ==
    (Counted /\ SameLength) =>
        \A i \in Positions :
            (~NoPackets(curr[i]) /\ curr[i].Speed > 0 /\ curr[i].Duplex = duplexFull) =>
                /\ stat[i].Rutil = Percent(stat[i].Rbytes, curr[i].Speed)
                /\ stat[i].Tutil = Percent(stat[i].Tbytes, curr[i].Speed)
                /\ stat[i].Utilization \in {stat[i].Rutil, stat[i].Tutil}
                /\ FLeq(stat[i].Rutil, stat[i].Utilization)
                /\ FLeq(stat[i].Tutil, stat[i].Utilization)

\* a full duplex entry that transmits more than it receives, below the cap
C5_Witness ==
    /\ Counted /\ SameLength
    /\ \E i \in Positions :
        /\ ~NoPackets(curr[i]) /\ curr[i].Speed > 0 /\ curr[i].Duplex = duplexFull
        /\ FLess(Zero, stat[i].Rutil)
        /\ FLess(stat[i].Rutil, stat[i].Tutil)
        /\ FLess(stat[i].Tutil, F(100))

\* C6: for an active half duplex entry with a link speed, Utilization is the
\* capped percentage of the sum of the byte rates, and never above 100.
C6_HalfDuplex ==
    (Counted /\ SameLength) =>
        \A i \in Positions :
            (~NoPackets(curr[i]) /\ curr[i].Speed > 0 /\ curr[i].Duplex = duplexHalf) =>
                /\ stat[i].Utilization =
                        Percent(FAdd(stat[i].Rbytes, stat[i].Tbytes), curr[i].Speed)
                /\ FLeq(stat[i].Utilization, F(100))

\* a half duplex entry whose directions are each below the link speed and
\* together above it
C6_Witness ==
    /\ Counted /\ SameLength
    /\ \E i \in Positions :
        /\ ~NoPackets(curr[i]) /\ curr[i].Speed > 0 /\ curr[i].Duplex = duplexHalf
        /\ FLess(Zero, stat[i].Rutil) /\ FLess(stat[i].Rutil, F(100))
        /\ FLess(Zero, stat[i].Tutil) /\ FLess(stat[i].Tutil, F(100))
        /\ FLess(F(curr[i].Speed), FMul(FAdd(stat[i].Rbytes, stat[i].Tbytes), F(8)))
        /\ stat[i].Utilization = F(100)

(***************************************************************************)
(* Properties of the acquisitions.                                         *)
(***************************************************************************)
HasPattern(name) ==
    \/ Contains(name, <<"d", "o", "c", "k", "e", "r">>)
    \/ Contains(name, <<"v", "i", "r", "b", "r">>)
    \/ Contains(name, <<"v", "e", "t", "h">>)

Kept(name) == ~HasPattern(name)

StatNames == [k \in 1..Len(stat) |-> stat[k].Ifname]

\* the lines of the file after its two header lines
Body == SubSeq(file, 3, Len(file))

\* the names of the source, in its order: the first field of every line of
\* the file, the first column of every row of the query
SourceNames ==
    IF op = "local" THEN [k \in 1..Len(Body) |-> Body[k][1]]
    ELSE LET rows == pgProcNetdevQuery(table) IN [k \in 1..Len(rows) |-> rows[k].name]

\* C7: the snapshot of a successful acquisition, local or remote, holds no
\* interface whose name contains docker, virbr or veth, and holds every other
\* interface of the source once, in the order of the source.
C7_Filter ==
    (op \in {"local", "remote"} /\ err = "none") =>
        /\ \A k \in 1..Len(stat) : ~HasPattern(stat[k].Ifname)
        /\ StatNames = SelectSeq(SourceNames, Kept)

\* a remote source of four interfaces, two of them filtered, one of these with
\* the pattern inside its name
C7_Witness ==
    /\ op = "remote" /\ err = "none"
    /\ Len(SourceNames) = 4 /\ Len(stat) = 2
    /\ \E k \in 1..4 : SourceNames[k] = Str_brveth
    /\ \E k \in 1..4 : SourceNames[k] = Str_docker0

\* the queries of a remote acquisition that fail: the uptime query, the
\* counters query, the scan of a row, the link settings query of an interface
\* that passes the filter
RemoteFailure ==
    \/ env.uptimeErr
    \/ env.queryErr
    \/ \E r \in table : r.null
    \/ \E r \in table : Kept(Left1(r.iface)) /\ Left1(r.iface) \in env.linkErr

\* C8: a remote acquisition in which a query fails returns an error and no
\* snapshot.
C8_AnyFailureIsFatal ==
    (op = "remote" /\ RemoteFailure) => (err # "none" /\ statNil /\ stat = <<>>)

\* C9: the names of the snapshot of a local acquisition, and the names given
\* to the link settings lookup, are the interface names of the lines without
\* their colon.
C9_ColonStripped ==
    (op = "local" /\ err = "none") =>
        /\ \A k \in 1..Len(stat) : \E j \in 1..Len(Body) : Body[j][1] = stat[k].Ifname \o Colon
        /\ \A k \in 1..Len(lookups) : \E j \in 1..Len(Body) : Body[j][1] = lookups[k] \o Colon

\* a line is a name and sixteen numbers
WellFormed(line) == Len(line) = 17 /\ \A k \in 2..17 : IsNumber(line[k])

\* C10: a local acquisition that opened the file and read the uptime returns
\* an error and no samples when a line after the two header lines is
\* malformed, and a snapshot only when none is.
C10_MalformedLineIsFatal ==
    (op = "local" /\ ~env.openErr /\ ~env.uptimeErr) =>
        IF \E j \in 1..Len(Body) : ~WellFormed(Body[j])
        THEN err = "bad content" /\ statNil /\ stat = <<>>
        ELSE err = "none" /\ Len(stat) <= Len(Body)

\* a line that is kept, followed by a malformed line of a filtered interface
C10_Witness ==
    /\ op = "local" /\ err = "bad content" /\ Len(Body) = 2
    /\ WellFormed(Body[1]) /\ Kept(Body[1][1])
    /\ ~WellFormed(Body[2]) /\ Len(Body[2]) > 0 /\ HasPattern(Body[2][1])
    /\ lookups = <<Body[1][1]>>

====
